---- MODULE Spec2Model ----
(***************************************************************************)
(* testnod-uploader: the command-line pipeline that validates a JUnit XML  *)
(* report, registers a test run (POST, retried) and uploads the file to    *)
(* the presigned URL of the registration response (PUT, retried).          *)
(*                                                                         *)
(* One run of the process is one behaviour: Init chooses the command line, *)
(* the file on disk and nothing else; every answer of the network is       *)
(* chosen when the attempt that receives it is made and is recorded in the *)
(* attempt log of its client.                                              *)
(***************************************************************************)
EXTENDS Integers, Sequences, FiniteSets, TLC

VARIABLES
    argv,        \* the command line: flags and positional argument
    fileExists,  \* os.Stat finds the file named on the command line
    fileContent, \* the file's content, a sequence of chunks
    pc,          \* position of the process
    config,      \* Config as filled by parseFlags
    validated,   \* result of the XML validator, "none" while it has not run
    regLog,      \* CreateTestRun: one entry per attempt of the retried function
    regDelays,   \* CreateTestRun: the sleeps between attempts, in nanoseconds
    resp,        \* CreateTestRun: the shared `resp` variable of the closure
    regResult,   \* CreateTestRun: the returned (response, error) pair
    upLog,       \* UploadJUnitXmlFile: one entry per attempt
    upDelays,    \* UploadJUnitXmlFile: the sleeps between attempts, in nanoseconds
    fh,          \* UploadJUnitXmlFile: the file handle of the latest attempt
    upResult,    \* UploadJUnitXmlFile: the returned error
    stdout,      \* the messages printed so far
    exitCode     \* -1 while the process runs, else the code given to os.Exit

vars == <<argv, fileExists, fileContent, pc, config, validated, regLog, regDelays,
          resp, regResult, upLog, upDelays, fh, upResult, stdout, exitCode>>

-----------------------------------------------------------------------------
(* Bounds of the model *)

MaxFileLen == 1
\* Longest token stream given to the validator on its own
MaxTokens == 3
\* Most -tag flags on a command line of the tag flag on its own
MaxTags == 3

-----------------------------------------------------------------------------
(* Values *)

\* time.Duration counts nanoseconds
Millisecond == 1000 * 1000
Second == 1000 * Millisecond

FileSymbols == {"<testsuite>", "<other>", "<malformed"}
Files == UNION {[1..n -> FileSymbols] : n \in 0..MaxFileLen}

defaultUploadURL == "https://testnod.com/integrations/test_runs/upload"
MalformedURL == "://invalid-url"
UploadURLFlags == {"", MalformedURL}
TokenFlags == {"", "test-token"}

NoErr == [msg |-> "", cause |-> ""]
Err(m, c) == [msg |-> m, cause |-> c]

Min(a, b) == IF a < b THEN a ELSE b

\* net/url: the URL of a request parses
URLParses(u) == u # MalformedURL
\* net/http: a request to this URL leaves the client (it names a scheme and a host)
URLDialable(u) == URLParses(u) /\ u # ""

StatusCreated == 201
StatusOK == 200

StatusLine(code) ==
    CASE code = 200 -> "200 OK"
      [] code = 201 -> "201 Created"
      [] code = 400 -> "400 Bad Request"
      [] code = 500 -> "500 Internal Server Error"
      [] OTHER -> "0"

-----------------------------------------------------------------------------
(* XML validator *)

\* Variant: the scan ends at the first testsuite element.
RECURSIVE ScanTokensStopsAtTestSuite(_, _, _)
ScanTokensStopsAtTestSuite(content, i, hasTestSuite) ==
    IF hasTestSuite THEN NoErr
    ELSE IF i > Len(content)
    THEN Err("doesn't seem to be a valid JUnit XML file", "")
    ELSE IF content[i] = "<malformed"
         THEN Err("error parsing XML", "syntax error")
         ELSE ScanTokensStopsAtTestSuite(content, i + 1, content[i] = "<testsuite>")

RECURSIVE ScanTokens(_, _, _)
ScanTokens(content, i, hasTestSuite) ==
    IF i > Len(content)
    THEN IF hasTestSuite THEN NoErr
         ELSE Err("doesn't seem to be a valid JUnit XML file", "")
    ELSE IF content[i] = "<malformed"
         THEN Err("error parsing XML", "syntax error")
         ELSE ScanTokens(content, i + 1, hasTestSuite \/ content[i] = "<testsuite>")

ValidateJUnitXMLFile(exists, content) ==
    IF ~exists THEN Err("failed to open file", "no such file")
    ELSE ScanTokens(content, 1, FALSE)

-----------------------------------------------------------------------------
(* Command line *)

ZeroConfig ==
    [Token |-> "", ValidateFile |-> FALSE, Branch |-> "", CommitSHA |-> "",
     RunURL |-> "", BuildID |-> "", IgnoreFailures |-> FALSE,
     UploadURL |-> "", Tags |-> << >>, FilePath |-> ""]

\* The flags that describe the test run, as given on the command line: the
\* values of the -tag flags in order, and the four metadata flags.
NoRequestFlags ==
    [Tags |-> << >>, Branch |-> "", CommitSHA |-> "", RunURL |-> "", BuildID |-> ""]
FullRequestFlags ==
    [Tags |-> <<"feature", "backend">>, Branch |-> "main", CommitSHA |-> "abc123",
     RunURL |-> "https://example.com/run/1", BuildID |-> "build-123"]
RequestFlags == {NoRequestFlags, FullRequestFlags}

\* Variant: the new tag goes to the front.
uploadTagsFlagSetPrepends(m, value) == <<[Value |-> value]>> \o m

\* uploadTagsFlag.Set: append one tag. The flag variable starts as the nil
\* slice, written << >>: a tag list of length 0 is always nil.
uploadTagsFlagSet(m, value) == Append(m, [Value |-> value])

\* strings.Join(values, sep)
RECURSIVE Join(_, _)
Join(values, sep) ==
    IF values = << >> THEN ""
    ELSE IF Len(values) = 1 THEN values[1]
    ELSE values[1] \o sep \o Join(Tail(values), sep)

\* uploadTagsFlag.String: the values of the tags, joined by commas.
uploadTagsFlagString(m) == Join([i \in DOMAIN m |-> m[i].Value], ",")

\* flag.Parse calls Set once for every -tag flag, in order.
RECURSIVE ParseTags(_, _)
ParseTags(m, values) ==
    IF values = << >> THEN m
    ELSE ParseTags(uploadTagsFlagSet(m, Head(values)), Tail(values))

\* Variant: the token is not checked.
parseFlagsSkipsToken(args, exists) ==
    LET parsed == [Token |-> args.Token, ValidateFile |-> args.ValidateFile,
                   Branch |-> args.Branch, CommitSHA |-> args.CommitSHA,
                   RunURL |-> args.RunURL, BuildID |-> args.BuildID,
                   IgnoreFailures |-> args.IgnoreFailures,
                   UploadURL |-> args.UploadURL,
                   Tags |-> ParseTags(<< >>, args.Tags), FilePath |-> ""]
        withPath == [parsed EXCEPT !.FilePath = "report.xml"]
        withURL == [withPath EXCEPT !.UploadURL =
                       IF args.UploadURL = "" THEN defaultUploadURL ELSE args.UploadURL]
    IN  IF ~args.hasFile
        THEN [config |-> parsed, err |-> Err("no file specified", "")]
        ELSE IF ~exists
        THEN [config |-> withPath, err |-> Err("file not found", "report.xml")]
        ELSE [config |-> withURL, err |-> NoErr]

\* Variant: the token is checked before the file is looked for.
parseFlagsTokenFirst(args, exists) ==
    LET parsed == [Token |-> args.Token, ValidateFile |-> args.ValidateFile,
                   Branch |-> args.Branch, CommitSHA |-> args.CommitSHA,
                   RunURL |-> args.RunURL, BuildID |-> args.BuildID,
                   IgnoreFailures |-> args.IgnoreFailures,
                   UploadURL |-> args.UploadURL,
                   Tags |-> ParseTags(<< >>, args.Tags), FilePath |-> ""]
        withPath == [parsed EXCEPT !.FilePath = "report.xml"]
        withURL == [withPath EXCEPT !.UploadURL =
                       IF args.UploadURL = "" THEN defaultUploadURL ELSE args.UploadURL]
    IN  IF ~args.hasFile
        THEN [config |-> parsed, err |-> Err("no file specified", "")]
        ELSE IF ~args.ValidateFile /\ args.Token = ""
        THEN [config |-> withURL, err |-> Err("no token specified", "")]
        ELSE IF ~exists
        THEN [config |-> withPath, err |-> Err("file not found", "report.xml")]
        ELSE [config |-> withURL, err |-> NoErr]

\* flag.Parse is taken to accept the command line.
parseFlags(args, exists) ==
    LET parsed == [Token |-> args.Token, ValidateFile |-> args.ValidateFile,
                   Branch |-> args.Branch, CommitSHA |-> args.CommitSHA,
                   RunURL |-> args.RunURL, BuildID |-> args.BuildID,
                   IgnoreFailures |-> args.IgnoreFailures,
                   UploadURL |-> args.UploadURL,
                   Tags |-> ParseTags(<< >>, args.Tags), FilePath |-> ""]
        withPath == [parsed EXCEPT !.FilePath = "report.xml"]
        withURL == [withPath EXCEPT !.UploadURL =
                       IF args.UploadURL = "" THEN defaultUploadURL ELSE args.UploadURL]
    IN  IF ~args.hasFile
        THEN [config |-> parsed, err |-> Err("no file specified", "")]
        ELSE IF ~exists
        THEN [config |-> withPath, err |-> Err("file not found", "report.xml")]
        ELSE IF ~args.ValidateFile /\ args.Token = ""
        THEN [config |-> withURL, err |-> Err("no token specified", "")]
        ELSE [config |-> withURL, err |-> NoErr]

\* Variant: every failure is ignored.
exitBasedOnIgnoreFailuresAlwaysZero(ignoreFailures) == 0

\* Variant: the flag is not consulted.
exitBasedOnIgnoreFailuresAlwaysOne(ignoreFailures) == 1

exitBasedOnIgnoreFailures(ignoreFailures) == IF ignoreFailures THEN 0 ELSE 1

-----------------------------------------------------------------------------
(* Registration client: CreateTestRun *)

\* uploadToTestNod: the CreateTestRunRequest built from the configuration.
uploadRequest(cfg) ==
    [Tags |-> cfg.Tags,
     TestRun |-> [Metadata |-> [Branch |-> cfg.Branch, CommitSHA |-> cfg.CommitSHA,
                                RunURL |-> cfg.RunURL, BuildID |-> cfg.BuildID]]]

\* Variant: a nil tag list is written as the empty array.
MarshalTagsNilAsEmpty(tags) ==
    [null |-> FALSE, items |-> [i \in DOMAIN tags |-> [value |-> tags[i].Value]]]

\* json.Marshal of the Tags field: null for the nil slice, else an array of
\* {"value": ...} objects.
MarshalTags(tags) ==
    IF tags = << >> THEN [null |-> TRUE, items |-> << >>]
    ELSE [null |-> FALSE, items |-> [i \in DOMAIN tags |-> [value |-> tags[i].Value]]]

\* json.Marshal of TestRunMetadata: one key for every field the struct declares.
MarshalMetadata(md) ==
    [branch |-> md.Branch, commit_sha |-> md.CommitSHA, run_url |-> md.RunURL]

\* json.Marshal(requestBody): the JSON document, as the value of each key.
Marshal(request) ==
    [tags |-> MarshalTags(request.Tags),
     test_run |-> [metadata |-> MarshalMetadata(request.TestRun.Metadata)]]

\* requestBodyBytes: the document as the bytes of the request body.
RequestBodyBytes(cfg) == <<Marshal(uploadRequest(cfg))>>

\* Variant: one buffer, made before the loop, serves every attempt.
RegBodyStartShared(log) == IF log = << >> THEN 0 ELSE log[Len(log)].bodyEnd

\* The read offset of the buffer an attempt sends from: bytes.NewBuffer makes
\* a new buffer over requestBodyBytes in every attempt.
RegBodyStart(log) == 0

\* The request of one attempt.
RegRequest(url, token, bytes, log) ==
    [method |-> "POST", url |-> url,
     contentType |-> "application/json", accept |-> "application/json",
     projectToken |-> token,
     body |-> SubSeq(bytes, RegBodyStart(log) + 1, Len(bytes))]

Attempts == 3
RetryDelay == 1000
MaxJitter == 100 * Millisecond
JitterChoices == {0, MaxJitter - 1}

ZeroResponse == [id |-> 0, project |-> "", test_run_url |-> "", presigned_url |-> ""]
PresignedURLs == {"https://s3.amazonaws.com/upload", MalformedURL}
FullResponse(u) ==
    [id |-> 123, project |-> "test-project",
     test_run_url |-> "https://example.com/test/123", presigned_url |-> u]

\* Bodies a server may send: a JSON object (the empty object {} decodes to the
\* zero value of the struct), text that is not JSON, or no bytes at all.
\* A JSON object is given by the values of the keys the two response structs
\* read: the four of SuccessfulServerResponse and error_message.
JSONBodies == {[kind |-> "json", obj |-> FullResponse(u), error_message |-> ""]
                  : u \in PresignedURLs}
                 \cup {[kind |-> "json", obj |-> ZeroResponse, error_message |-> ""]}
BrokenBodies == {[kind |-> k, obj |-> ZeroResponse, error_message |-> ""]
                    : k \in {"malformed", "empty"}}
Bodies == JSONBodies \cup BrokenBodies
EmptyBody == [kind |-> "empty", obj |-> ZeroResponse, error_message |-> ""]
\* The failure envelope {"error_message": ...} of a rejected request.
FailureEnvelope ==
    [kind |-> "json", obj |-> ZeroResponse, error_message |-> "Invalid token provided"]

\* json.NewDecoder(body).Decode(&v)
DecodeErr(body) ==
    CASE body.kind = "json" -> NoErr
      [] body.kind = "empty" -> Err("failed to decode response body", "EOF")
      [] OTHER -> Err("failed to decode response body", "invalid character")
\* Variant: the two URL keys are read into each other's field.
DecodeSwapsURLs(body) ==
    IF body.kind = "json"
    THEN [body.obj EXCEPT !.test_run_url = body.obj.presigned_url,
                          !.presigned_url = body.obj.test_run_url]
    ELSE ZeroResponse

\* Decode into SuccessfulServerResponse
Decode(body) == IF body.kind = "json" THEN body.obj ELSE ZeroResponse
\* Decode into FailedServerResponse
DecodeFailed(body) == [ErrorMsg |-> IF body.kind = "json" THEN body.error_message ELSE ""]

\* An *http.Response: its status, its body, whether the body is closed and
\* how many times Close was called on it.
NilResp == [nil |-> TRUE, status |-> 0, body |-> EmptyBody, closed |-> FALSE, closes |-> 0]
Response(code, body, closed) ==
    [nil |-> FALSE, status |-> code, body |-> body, closed |-> closed,
     closes |-> IF closed THEN 1 ELSE 0]
\* resp.Body.Close()
CloseBody(r) == [r EXCEPT !.closed = TRUE, !.closes = @ + 1]

\* What one call of client.Do can produce for a request that leaves the client.
\* A 400 carries the failure envelope, a 500 no body.
RegAnswers ==
    {[transport |-> TRUE, status |-> 0, body |-> EmptyBody]}
    \cup {[transport |-> FALSE, status |-> 400, body |-> FailureEnvelope]}
    \cup {[transport |-> FALSE, status |-> 500, body |-> EmptyBody]}
    \cup {[transport |-> FALSE, status |-> StatusCreated, body |-> b] : b \in Bodies}

\* Variant: the body of a 201 response is decoded inside the retried function.
RegAttemptErrDecodes(url, answer) ==
    IF ~URLParses(url) THEN Err("failed to create request", "missing protocol scheme")
    ELSE IF answer.transport THEN Err("failed to perform request", "connection refused")
    ELSE IF answer.status # StatusCreated
    THEN Err("received non-OK response", StatusLine(answer.status))
    ELSE DecodeErr(answer.body)

\* The error returned by one run of the retried function.
RegAttemptErr(url, answer) ==
    IF ~URLParses(url) THEN Err("failed to create request", "missing protocol scheme")
    ELSE IF answer.transport THEN Err("failed to perform request", "connection refused")
    ELSE IF answer.status # StatusCreated
    THEN Err("received non-OK response", StatusLine(answer.status))
    ELSE NoErr

\* Variant: the response is assigned to a variable of the retried function,
\* the shared one keeps its value.
RegAttemptRespShadowed(url, answer, old) == old

\* Variant: the body of a rejected attempt is left open.
RegAttemptRespLeavesOpen(url, answer, old) ==
    IF ~URLParses(url) THEN old
    ELSE IF answer.transport THEN NilResp
    ELSE Response(answer.status, answer.body, FALSE)

\* The value of the shared `resp` variable after one run of the retried function.
RegAttemptResp(url, answer, old) ==
    IF ~URLParses(url) THEN old
    ELSE IF answer.transport THEN NilResp
    ELSE Response(answer.status, answer.body, answer.status # StatusCreated)

\* Variant: one attempt too many.
RegShouldRetryOneMore(n, err) == n < Attempts

\* Variant: a client error (4xx) is not retried.
RegShouldRetryServerOnly(n, err) ==
    n + 1 < Attempts /\ err.cause # "400 Bad Request"

\* Variant: a 500 answer is retried without counting the attempts.
RegShouldRetryWhileServerError(n, err) ==
    n + 1 < Attempts \/ err.cause = "500 Internal Server Error"

\* retry-go: after failed attempt number n (from 0) another attempt follows.
RegShouldRetry(n, err) == n + 1 < Attempts

\* retry-go: the sleep after failed attempt number n (from 0). No DelayType
\* option is given, so the delay is the back-off of the base delay plus jitter.
RegDelayFor(n, jitter) == RetryDelay * (2 ^ n) + jitter

\* Variant: the error of the first attempt is returned.
RegLoopErrFirst(log) == log[1].err

\* retry-go with LastErrorOnly(true): the error of the loop.
RegLoopErr(log) == log[Len(log)].err

-----------------------------------------------------------------------------
(* File upload client: UploadJUnitXmlFile(filePath, presignedURL) *)

UploadAttempts == 3
UploadDelay == 1000 * Millisecond

ClosedHandle == [open |-> FALSE, offset |-> 0]

\* Variant: one handle, opened before the loop, serves every attempt.
UploadStartOffsetShared(handle) == handle.offset

\* The read offset of the handle an attempt sends from: every attempt opens
\* the file afresh.
UploadStartOffset(handle) == 0

\* Variant: the length of an empty file is left unknown.
UploadContentLengthUnknownIfEmpty(content) ==
    IF Len(content) = 0 THEN -1 ELSE Len(content)

\* fileInfo.Size(), assigned to uploadReq.ContentLength
UploadContentLength(content) == Len(content)

\* uploadReq.Header.Set("Content-Type", ...)
UploadContentType == "application/xml"

\* The request of one attempt: method, URL, headers and the bytes the handle
\* still has to give.
UploadRequest(url, content, handle) ==
    [method |-> "PUT", url |-> url,
     contentType |-> UploadContentType,
     contentLength |-> UploadContentLength(content),
     body |-> SubSeq(content, UploadStartOffset(handle) + 1, Len(content))]

\* What one attempt can meet: the file does not open, the transport fails
\* after the server took `consumed` bytes, or the server answers.
\* A response comes with a body: nothing at all, or some text that is not JSON.
UploadBodies == {"empty", "text"}

UpAnswers(n) ==
    {[opens |-> FALSE, transport |-> FALSE, status |-> 0, consumed |-> 0, body |-> "empty"]}
    \cup {[opens |-> TRUE, transport |-> TRUE, status |-> 0, consumed |-> k, body |-> "empty"]
             : k \in 0..n}
    \cup {[opens |-> TRUE, transport |-> FALSE, status |-> 500, consumed |-> n, body |-> "text"]}
    \cup {[opens |-> TRUE, transport |-> FALSE, status |-> StatusOK, consumed |-> n, body |-> b]
             : b \in UploadBodies}

\* Variant: the body of a 200 answer is decoded as JSON.
UploadAttemptErrDecodes(url, answer) ==
    IF ~answer.opens THEN Err("failed to open file", "permission denied")
    ELSE IF ~URLParses(url) THEN Err("failed to create upload request", "missing protocol scheme")
    ELSE IF ~URLDialable(url) THEN Err("failed to upload file", "unsupported protocol scheme")
    ELSE IF answer.transport THEN Err("failed to upload file", "connection reset")
    ELSE IF answer.status # StatusOK THEN Err("failed to upload file", "")
    ELSE IF answer.body = "empty" THEN Err("failed to decode response", "EOF")
    ELSE Err("failed to decode response", "invalid character")

\* Variant: a file that does not open is reported as a failed upload.
UploadAttemptErrOpenAsUpload(url, answer) ==
    IF ~answer.opens THEN Err("failed to upload file", "permission denied")
    ELSE IF ~URLParses(url) THEN Err("failed to create upload request", "missing protocol scheme")
    ELSE IF ~URLDialable(url) THEN Err("failed to upload file", "unsupported protocol scheme")
    ELSE IF answer.transport THEN Err("failed to upload file", "connection reset")
    ELSE IF answer.status # StatusOK THEN Err("failed to upload file", "")
    ELSE NoErr

\* The error of one attempt.
UploadAttemptErr(url, answer) ==
    IF ~answer.opens THEN Err("failed to open file", "permission denied")
    ELSE IF ~URLParses(url) THEN Err("failed to create upload request", "missing protocol scheme")
    ELSE IF ~URLDialable(url) THEN Err("failed to upload file", "unsupported protocol scheme")
    ELSE IF answer.transport THEN Err("failed to upload file", "connection reset")
    ELSE IF answer.status # StatusOK THEN Err("failed to upload file", "")
    ELSE NoErr

\* Variant: the handle is closed only after a successful PUT.
UploadHandleClosedOnSuccessOnly(answer, err) == answer.opens /\ err = NoErr

\* The handle an attempt opened is closed when the attempt ends: the deferred
\* file.Close() runs on every return after a successful os.Open.
UploadHandleClosed(answer, err) == answer.opens

\* Variant: one attempt too many.
UploadShouldRetryOneMore(n, err) == n < UploadAttempts

UploadShouldRetry(n, err) == n + 1 < UploadAttempts

UploadLoopErr(log) == log[Len(log)].err

-----------------------------------------------------------------------------
(* The process *)

Init ==
    /\ argv \in {[hasFile |-> h, Token |-> t, ValidateFile |-> v, IgnoreFailures |-> i,
                   UploadURL |-> u, Tags |-> r.Tags, Branch |-> r.Branch,
                   CommitSHA |-> r.CommitSHA, RunURL |-> r.RunURL, BuildID |-> r.BuildID]
                     : h \in BOOLEAN, t \in TokenFlags, v \in BOOLEAN, i \in BOOLEAN,
                       u \in UploadURLFlags, r \in RequestFlags}
    /\ fileExists \in BOOLEAN
    /\ fileContent \in (IF fileExists THEN Files ELSE {<< >>})
    /\ pc = "main"
    /\ config = ZeroConfig
    /\ validated = "none"
    /\ regLog = << >>
    /\ regDelays = << >>
    /\ resp = NilResp
    /\ regResult = [resp |-> ZeroResponse, err |-> NoErr]
    /\ upLog = << >>
    /\ upDelays = << >>
    /\ fh = ClosedHandle
    /\ upResult = NoErr
    /\ stdout = << >>
    /\ exitCode = -1

Exit(code) == pc' = "exit" /\ exitCode' = code

\* main: parse the flags, then validate only or upload.
main ==
    /\ pc = "main"
    /\ LET r == parseFlags(argv, fileExists) IN
       /\ config' = r.config
       /\ IF r.err # NoErr
          THEN /\ stdout' = Append(stdout, r.err.msg)
               /\ Exit(exitBasedOnIgnoreFailures(r.config.IgnoreFailures))
          ELSE /\ stdout' = stdout
               /\ pc' = IF r.config.ValidateFile THEN "validateOnly" ELSE "uploadToTestNod"
               /\ exitCode' = exitCode
    /\ UNCHANGED <<argv, fileExists, fileContent, validated, regLog, regDelays, resp,
                   regResult, upLog, upDelays, fh, upResult>>

\* Variant: a file found valid goes on to be uploaded.
validateOnlyThenUploads ==
    /\ pc = "validateOnly"
    /\ LET err == ValidateJUnitXMLFile(fileExists, fileContent) IN
       IF err # NoErr
       THEN /\ validated' = "rejected"
            /\ stdout' = stdout \o <<"Validating file", err.msg>>
            /\ Exit(exitBasedOnIgnoreFailures(config.IgnoreFailures))
       ELSE /\ validated' = "accepted"
            /\ stdout' = stdout \o <<"Validating file", "is a valid JUnit XML file!">>
            /\ pc' = "uploadToTestNod"
            /\ exitCode' = exitCode
    /\ UNCHANGED <<argv, fileExists, fileContent, config, regLog, regDelays, resp,
                   regResult, upLog, upDelays, fh, upResult>>

validateOnly ==
    /\ pc = "validateOnly"
    /\ LET err == ValidateJUnitXMLFile(fileExists, fileContent) IN
       IF err # NoErr
       THEN /\ validated' = "rejected"
            /\ stdout' = stdout \o <<"Validating file", err.msg>>
            /\ Exit(exitBasedOnIgnoreFailures(config.IgnoreFailures))
       ELSE /\ validated' = "accepted"
            /\ stdout' = stdout \o <<"Validating file", "is a valid JUnit XML file!">>
            /\ Exit(0)
    /\ UNCHANGED <<argv, fileExists, fileContent, config, regLog, regDelays, resp,
                   regResult, upLog, upDelays, fh, upResult>>

\* uploadToTestNod up to the call of CreateTestRun.
uploadToTestNod ==
    /\ pc = "uploadToTestNod"
    /\ stdout' = Append(stdout, "is a valid JUnit XML file. Creating test run...")
    /\ pc' = "CreateTestRun"
    /\ UNCHANGED <<argv, fileExists, fileContent, config, validated, regLog, regDelays,
                   resp, regResult, upLog, upDelays, fh, upResult, exitCode>>

\* One attempt of the retried function of CreateTestRun, with retry-go's
\* decision after it: leave the loop, or sleep and go round again.
CreateTestRunAttempt ==
    /\ pc = "CreateTestRun"
    /\ \E answer \in RegAnswers, jitter \in JitterChoices :
        LET n == Len(regLog)
            url == config.UploadURL
            err == RegAttemptErr(url, answer)
            posted == URLParses(url)
            retry == err # NoErr /\ RegShouldRetry(n, err)
            req == RegRequest(url, config.Token, RequestBodyBytes(config), regLog)
            answered == posted /\ ~answer.transport
        IN  \* without a request on the wire there is no answer to choose
            /\ posted \/ answer = CHOOSE a \in RegAnswers : a.transport
            /\ retry \/ jitter = 0
            /\ regLog' = Append(regLog,
                   [posted |-> posted, url |-> url, token |-> config.Token,
                    request |-> req,
                    \* a server that answers has read the body it was sent
                    bodyEnd |-> RegBodyStart(regLog)
                                  + (IF answered THEN Len(req.body) ELSE 0),
                    status |-> IF answered THEN answer.status ELSE 0,
                    body |-> IF answered THEN answer.body ELSE EmptyBody,
                    \* Close calls on this answer's body inside the attempt
                    closes |-> IF answered THEN RegAttemptResp(url, answer, resp).closes
                               ELSE 0,
                    err |-> err])
            /\ resp' = RegAttemptResp(url, answer, resp)
            /\ regDelays' = IF retry THEN Append(regDelays, RegDelayFor(n, jitter))
                            ELSE regDelays
            /\ pc' = IF retry THEN "CreateTestRun" ELSE "CreateTestRun.after"
    /\ UNCHANGED <<argv, fileExists, fileContent, config, validated, regResult, upLog,
                   upDelays, fh, upResult, stdout, exitCode>>

\* CreateTestRun after the retry loop: return its error, or decode the body.
CreateTestRunReturn ==
    /\ pc = "CreateTestRun.after"
    /\ LET last == regLog[Len(regLog)]
           err == IF last.err = NoErr THEN NoErr ELSE RegLoopErr(regLog)
       IN  IF err # NoErr
           THEN /\ regResult' = [resp |-> ZeroResponse, err |-> err]
                /\ resp' = resp
                /\ pc' = "registered"
                /\ exitCode' = exitCode
           ELSE IF resp.nil
           THEN \* resp.Body of a nil response: the process panics
                /\ regResult' = regResult
                /\ resp' = resp
                /\ Exit(2)
           ELSE IF resp.status # StatusCreated
           THEN /\ regResult' =
                      [resp |-> ZeroResponse,
                       err |-> IF DecodeErr(resp.body) # NoErr THEN DecodeErr(resp.body)
                               ELSE Err("received non-OK response",
                                        DecodeFailed(resp.body).ErrorMsg)]
                /\ resp' = CloseBody(resp)
                /\ pc' = "registered"
                /\ exitCode' = exitCode
           ELSE /\ regResult' =
                      IF DecodeErr(resp.body) # NoErr
                      THEN [resp |-> ZeroResponse, err |-> DecodeErr(resp.body)]
                      ELSE [resp |-> Decode(resp.body), err |-> NoErr]
                /\ resp' = CloseBody(resp)
                /\ pc' = "registered"
                /\ exitCode' = exitCode
    /\ UNCHANGED <<argv, fileExists, fileContent, config, validated, regLog, regDelays,
                   upLog, upDelays, fh, upResult, stdout>>

\* Variant: with -ignore-failures a failed registration does not end the run.
AfterCreateTestRunContinues ==
    /\ pc = "registered"
    /\ IF regResult.err # NoErr /\ ~config.IgnoreFailures
       THEN /\ stdout' = Append(stdout, "Error creating test run on TestNod")
            /\ Exit(exitBasedOnIgnoreFailures(config.IgnoreFailures))
       ELSE /\ stdout' = Append(stdout, "Created test run, uploading JUnit XML file...")
            /\ pc' = "UploadJUnitXmlFile"
            /\ exitCode' = exitCode
    /\ UNCHANGED <<argv, fileExists, fileContent, config, validated, regLog, regDelays,
                   resp, regResult, upLog, upDelays, fh, upResult>>

\* uploadToTestNod after CreateTestRun returned, up to the call of the upload.
AfterCreateTestRun ==
    /\ pc = "registered"
    /\ IF regResult.err # NoErr
       THEN /\ stdout' = Append(stdout, "Error creating test run on TestNod")
            /\ Exit(exitBasedOnIgnoreFailures(config.IgnoreFailures))
       ELSE /\ stdout' = Append(stdout, "Created test run, uploading JUnit XML file...")
            /\ pc' = "UploadJUnitXmlFile"
            /\ exitCode' = exitCode
    /\ UNCHANGED <<argv, fileExists, fileContent, config, validated, regLog, regDelays,
                   resp, regResult, upLog, upDelays, fh, upResult>>

\* The URL uploadToTestNod hands to the upload.
UploadTarget == regResult.resp.presigned_url

\* One attempt of the upload, with the retry decision after it.
UploadAttempt ==
    /\ pc = "UploadJUnitXmlFile"
    /\ \E answer \in UpAnswers(Len(fileContent)) :
        LET n == Len(upLog)
            url == UploadTarget
            err == UploadAttemptErr(url, answer)
            req == UploadRequest(url, fileContent, fh)
            sent == answer.opens /\ URLDialable(url)
            retry == err # NoErr /\ UploadShouldRetry(n, err)
        IN  /\ sent \/ ~answer.opens
                 \/ answer = CHOOSE a \in UpAnswers(Len(fileContent)) :
                                a.transport /\ a.consumed = 0
            /\ Len(req.body) >= answer.consumed
            /\ upLog' = Append(upLog,
                   [opened |-> answer.opens, sent |-> sent, request |-> req,
                    consumed |-> IF sent THEN answer.consumed ELSE 0,
                    status |-> IF sent /\ ~answer.transport THEN answer.status ELSE 0,
                    body |-> IF sent /\ ~answer.transport THEN answer.body ELSE "empty",
                    closed |-> UploadHandleClosed(answer, err),
                    err |-> err])
            /\ fh' = IF answer.opens
                     THEN [open |-> ~UploadHandleClosed(answer, err),
                           offset |-> UploadStartOffset(fh) + answer.consumed]
                     ELSE fh
            /\ upDelays' = IF retry THEN Append(upDelays, UploadDelay) ELSE upDelays
            /\ IF retry
               THEN pc' = "UploadJUnitXmlFile" /\ upResult' = upResult
               ELSE /\ pc' = "uploaded"
                    /\ upResult' = IF err = NoErr THEN NoErr
                                   ELSE UploadLoopErr(Append(upLog, [err |-> err]))
    /\ UNCHANGED <<argv, fileExists, fileContent, config, validated, regLog, regDelays,
                   resp, regResult, stdout, exitCode>>

\* Variant: a failed upload starts the registration again.
AfterUploadRegistersAgain ==
    /\ pc = "uploaded"
    /\ IF upResult # NoErr
       THEN /\ stdout' = Append(stdout, "There was an error uploading the file to TestNod.")
            /\ pc' = "CreateTestRun"
            /\ exitCode' = exitCode
       ELSE /\ stdout' = Append(stdout, "Test run uploaded successfully!")
            /\ Exit(0)
    /\ UNCHANGED <<argv, fileExists, fileContent, config, validated, regLog, regDelays,
                   resp, regResult, upLog, upDelays, fh, upResult>>

\* Variant: with -ignore-failures a failed upload is reported and the run
\* goes on to the success message.
AfterUploadFallsThrough ==
    /\ pc = "uploaded"
    /\ IF upResult # NoErr /\ ~config.IgnoreFailures
       THEN /\ stdout' = Append(stdout, "There was an error uploading the file to TestNod.")
            /\ Exit(exitBasedOnIgnoreFailures(config.IgnoreFailures))
       ELSE /\ stdout' = (IF upResult # NoErr
                          THEN Append(stdout, "There was an error uploading the file to TestNod.")
                          ELSE stdout) \o <<"Test run uploaded successfully!">>
            /\ Exit(0)
    /\ UNCHANGED <<argv, fileExists, fileContent, config, validated, regLog, regDelays,
                   resp, regResult, upLog, upDelays, fh, upResult>>

\* uploadToTestNod after the upload returned.
AfterUpload ==
    /\ pc = "uploaded"
    /\ IF upResult # NoErr
       THEN /\ stdout' = Append(stdout, "There was an error uploading the file to TestNod.")
            /\ Exit(exitBasedOnIgnoreFailures(config.IgnoreFailures))
       ELSE /\ stdout' = Append(stdout, "Test run uploaded successfully!")
            /\ Exit(0)
    /\ UNCHANGED <<argv, fileExists, fileContent, config, validated, regLog, regDelays,
                   resp, regResult, upLog, upDelays, fh, upResult>>

Next ==
    \/ main
    \/ validateOnly
    \/ uploadToTestNod
    \/ CreateTestRunAttempt
    \/ CreateTestRunReturn
    \/ AfterCreateTestRun
    \/ UploadAttempt
    \/ AfterUpload

Spec == Init /\ [][Next]_vars

-----------------------------------------------------------------------------
(* The validator on its own: validateOnly on token streams of up to MaxTokens
   tokens, for a file that may have gone since parseFlags found it. *)

TokenStreams == UNION {[1..n -> FileSymbols] : n \in 0..MaxTokens}

ValidateArgs ==
    {[hasFile |-> TRUE, Token |-> "", ValidateFile |-> TRUE, IgnoreFailures |-> i,
      UploadURL |-> "", Tags |-> << >>, Branch |-> "", CommitSHA |-> "",
      RunURL |-> "", BuildID |-> ""] : i \in BOOLEAN}

InitValidate ==
    /\ argv \in ValidateArgs
    /\ fileExists \in BOOLEAN
    /\ fileContent \in (IF fileExists THEN TokenStreams ELSE {<< >>})
    /\ pc = "validateOnly"
    /\ config = parseFlags(argv, TRUE).config
    /\ validated = "none"
    /\ regLog = << >>
    /\ regDelays = << >>
    /\ resp = NilResp
    /\ regResult = [resp |-> ZeroResponse, err |-> NoErr]
    /\ upLog = << >>
    /\ upDelays = << >>
    /\ fh = ClosedHandle
    /\ upResult = NoErr
    /\ stdout = << >>
    /\ exitCode = -1

NextValidate == validateOnly

SpecValidate == InitValidate /\ [][NextValidate]_vars

-----------------------------------------------------------------------------
(* The tag flag on its own: flag.Parse calls Set for each -tag of the command
   line in turn, then the list is printed with String. *)

TagValues == {"feature", "backend", "slow"}
TagLists == UNION {[1..n -> TagValues] : n \in 0..MaxTags}

InitTags ==
    /\ argv \in {[hasFile |-> TRUE, Token |-> "test-token", ValidateFile |-> FALSE,
                   IgnoreFailures |-> FALSE, UploadURL |-> "", Tags |-> t, Branch |-> "",
                   CommitSHA |-> "", RunURL |-> "", BuildID |-> ""] : t \in TagLists}
    /\ fileExists = TRUE
    /\ fileContent = << >>
    /\ pc = "flag.Parse"
    /\ config = ZeroConfig
    /\ validated = "none"
    /\ regLog = << >>
    /\ regDelays = << >>
    /\ resp = NilResp
    /\ regResult = [resp |-> ZeroResponse, err |-> NoErr]
    /\ upLog = << >>
    /\ upDelays = << >>
    /\ fh = ClosedHandle
    /\ upResult = NoErr
    /\ stdout = << >>
    /\ exitCode = -1

\* flag.Parse meets the next -tag flag and calls Set with its value.
flagSetTag ==
    /\ pc = "flag.Parse"
    /\ Len(config.Tags) < Len(argv.Tags)
    /\ config' = [config EXCEPT
                     !.Tags = uploadTagsFlagSet(@, argv.Tags[Len(config.Tags) + 1])]
    /\ UNCHANGED <<argv, fileExists, fileContent, pc, validated, regLog, regDelays, resp,
                   regResult, upLog, upDelays, fh, upResult, stdout, exitCode>>

\* The command line is read: the tag list is printed.
printTags ==
    /\ pc = "flag.Parse"
    /\ Len(config.Tags) >= Len(argv.Tags)
    /\ stdout' = Append(stdout, uploadTagsFlagString(config.Tags))
    /\ Exit(0)
    /\ UNCHANGED <<argv, fileExists, fileContent, config, validated, regLog, regDelays,
                   resp, regResult, upLog, upDelays, fh, upResult>>

NextTags == flagSetTag \/ printTags

SpecTags == InitTags /\ [][NextTags]_vars

\* Every HTTP call returns, with a response or an error, and a process that
\* can take its next step takes it.
\* The flags that describe the test run have no part in the control flow: the
\* runs are those of a command line without them.
InitLive ==
    /\ Init
    /\ [Tags |-> argv.Tags, Branch |-> argv.Branch, CommitSHA |-> argv.CommitSHA,
        RunURL |-> argv.RunURL, BuildID |-> argv.BuildID] = NoRequestFlags

LiveSpec == InitLive /\ [][Next]_vars /\ WF_vars(Next)

TypeOK ==
    /\ pc \in {"main", "validateOnly", "uploadToTestNod", "CreateTestRun",
               "CreateTestRun.after", "registered", "UploadJUnitXmlFile", "uploaded", "exit"}
    /\ exitCode \in {-1, 0, 1, 2}
    /\ Len(regLog) <= Attempts
    /\ Len(upLog) <= UploadAttempts

-----------------------------------------------------------------------------
(* Properties *)

\* The retry loop of CreateTestRun has ended.
RegLoopDone == Len(regLog) > 0 /\ pc # "CreateTestRun"
\* CreateTestRun has returned to uploadToTestNod.
RegReturned == RegLoopDone /\ pc # "CreateTestRun.after"
\* UploadJUnitXmlFile has returned.
UploadReturned == Len(upLog) > 0 /\ pc # "UploadJUnitXmlFile"

Statuses(log) == [i \in DOMAIN log |-> log[i].status]

\* Index of the first attempt answered with `code`, or one past the attempt
\* limit when there is none.
FirstWith(log, code, limit) ==
    IF \E i \in DOMAIN log : log[i].status = code
    THEN CHOOSE i \in DOMAIN log :
            /\ log[i].status = code
            /\ \A j \in 1..(i - 1) : log[j].status # code
    ELSE limit + 1

\* C1: CreateTestRun makes min(3, index of the first 201) attempts, each a POST
\* when the URL is well-formed, and sends nothing after the first 201; after
\* 500, 500, 201 with a valid body it has sent 3 POSTs and returns that body
\* with no error.
C1_PostsUntilFirst201 ==
    /\ Len(regLog) <= Attempts
    /\ \A i \in DOMAIN regLog :
          /\ regLog[i].status = StatusCreated => i = Len(regLog)
          /\ URLParses(config.UploadURL) => regLog[i].posted
    /\ RegLoopDone =>
          Len(regLog) = Min(Attempts, FirstWith(regLog, StatusCreated, Attempts))
    /\ (RegReturned /\ Statuses(regLog) = <<500, 500, 201>> /\ resp.body.kind = "json")
          => /\ Cardinality({i \in DOMAIN regLog : regLog[i].posted}) = 3
             /\ regResult = [resp |-> resp.body.obj, err |-> NoErr]

C1_Witness ==
    /\ RegReturned
    /\ Statuses(regLog) = <<500, 500, 201>>
    /\ regResult.err = NoErr
    /\ regResult.resp.presigned_url = "https://s3.amazonaws.com/upload"

\* C2: when all 3 attempts fail, the error CreateTestRun returns is the error
\* of the third attempt and nothing else; for a non-201 third response it
\* carries that response's status line.
C2_LastErrorOnly ==
    (RegReturned /\ Len(regLog) = Attempts /\ regLog[Attempts].err # NoErr)
        => /\ regResult.err = regLog[Attempts].err
           /\ regResult.resp = ZeroResponse
           /\ regLog[Attempts].status # 0
                 => /\ regResult.err.msg = "received non-OK response"
                    /\ regResult.err.cause = StatusLine(regLog[Attempts].status)

C2_Witness ==
    /\ RegReturned
    /\ Statuses(regLog) = <<400, 0, 500>>
    /\ regLog[1].err # regLog[3].err
    /\ regLog[2].err # regLog[3].err
    /\ regResult.err.cause = "500 Internal Server Error"

\* C3: a body of a 201 response that does not decode ends CreateTestRun with
\* "failed to decode response body", and once an attempt was answered 201 no
\* further attempt is made.
C3_DecodeFailureFatal ==
    /\ [](  (RegReturned /\ regLog[Len(regLog)].status = StatusCreated
                /\ resp.body.kind # "json")
            => /\ regResult.err.msg = "failed to decode response body"
               /\ regResult.resp = ZeroResponse)
    /\ [][(\E i \in DOMAIN regLog : regLog[i].status = StatusCreated)
             => regLog' = regLog]_vars

C3_Witness ==
    /\ RegReturned
    /\ Statuses(regLog) = <<201>>
    /\ resp.body.kind = "empty"
    /\ regResult.err = Err("failed to decode response body", "EOF")

\* C4: every failed attempt, whatever its kind, counts as one attempt and is
\* followed by another attempt while fewer than 3 were made; the error of a
\* non-201 attempt is the status line of its response.
C4_UniformRetry ==
    [][pc = "CreateTestRun" =>
         /\ Len(regLog') = Len(regLog) + 1
         /\ SubSeq(regLog', 1, Len(regLog)) = regLog
         /\ LET e == regLog'[Len(regLog')] IN
              /\ e.err.msg \in {"", "failed to create request",
                                "failed to perform request", "received non-OK response"}
              /\ (e.err # NoErr /\ Len(regLog') < Attempts) => pc' = "CreateTestRun"
              /\ (e.err = NoErr \/ Len(regLog') = Attempts) => pc' = "CreateTestRun.after"
              /\ e.status \notin {0, StatusCreated}
                    => e.err = Err("received non-OK response", StatusLine(e.status))
              /\ e.status = 0 /\ e.posted => e.err.msg = "failed to perform request"
              /\ ~e.posted => e.err.msg = "failed to create request"]_vars

C4_Witness ==
    /\ Len(regLog) = Attempts
    /\ Statuses(regLog) = <<400, 0, 400>>
    /\ regLog[1].err.cause = "400 Bad Request"
    /\ regLog[2].err.msg = "failed to perform request"

C4_WitnessBadURL ==
    /\ Len(regLog) = Attempts
    /\ \A i \in DOMAIN regLog : regLog[i].err.msg = "failed to create request"

\* C5: every sleep between two attempts of CreateTestRun is 1000 ms, whatever
\* the attempt number, and two failed attempts before a success wait at least
\* 2 seconds in all.
C5_FixedDelay ==
    /\ \A i \in DOMAIN regDelays : regDelays[i] = 1000 * Millisecond
    /\ (RegLoopDone /\ Len(regLog) = 3) => regDelays[1] + regDelays[2] >= 2 * Second

\* C6: no registration POST is sent unless the XML validator accepted the
\* file first, and a file the validator rejects is never registered or uploaded.
C6_ValidateBeforeRegister ==
    /\ (\E i \in DOMAIN regLog : regLog[i].posted) => validated = "accepted"
    /\ ValidateJUnitXMLFile(fileExists, fileContent) # NoErr
          => /\ \A i \in DOMAIN regLog : ~regLog[i].posted
             /\ \A i \in DOMAIN upLog : ~upLog[i].sent

\* C7: a PUT goes out only after an attempt was answered 201 with a body that
\* decodes, and to the presigned_url of that body; after a registration that
\* ended in an error the upload is never started.
C7_PutOnlyAfterRegistration ==
    /\ \A i \in DOMAIN upLog :
          /\ RegReturned
          /\ regResult.err = NoErr
          /\ regLog[Len(regLog)].status = StatusCreated
          /\ resp.body.kind = "json"
          /\ upLog[i].request.method = "PUT"
          /\ upLog[i].request.url = resp.body.obj.presigned_url
    /\ (RegReturned /\ regResult.err # NoErr)
          => upLog = << >> /\ pc \in {"registered", "exit"}

C7_Witness ==
    /\ \E i \in DOMAIN upLog :
          upLog[i].sent /\ upLog[i].request.url = "https://s3.amazonaws.com/upload"
    /\ Len(regLog) = 2

C7_WitnessFailed ==
    /\ RegReturned /\ regResult.err # NoErr
    /\ config.IgnoreFailures
    /\ pc = "exit"

\* C8: the upload makes min(3, index of the first 200) attempts; after two
\* failures and a 200 it has sent 3 PUTs and returns no error, and when every
\* attempt fails it has made 3 attempts and returns an error.
C8_PutsUntilFirst200 ==
    /\ Len(upLog) <= UploadAttempts
    /\ \A i \in DOMAIN upLog : upLog[i].status = StatusOK => i = Len(upLog)
    /\ UploadReturned =>
          /\ Len(upLog) = Min(UploadAttempts, FirstWith(upLog, StatusOK, UploadAttempts))
          /\ upResult = NoErr <=> upLog[Len(upLog)].status = StatusOK
          /\ upResult # NoErr => Len(upLog) = UploadAttempts

C8_Witness ==
    /\ UploadReturned
    /\ Statuses(upLog) = <<500, 0, 200>>
    /\ \A i \in DOMAIN upLog : upLog[i].sent
    /\ upResult = NoErr

C8_WitnessAllFail ==
    /\ UploadReturned
    /\ Statuses(upLog) = <<500, 500, 500>>
    /\ upResult.msg = "failed to upload file"

\* C9: the body of every PUT, first attempt or retry, is the whole file from
\* its first byte, whatever an earlier attempt consumed.
C9_FreshFileEachAttempt ==
    \A i \in DOMAIN upLog :
        upLog[i].opened => upLog[i].request.body = fileContent

C9_Witness ==
    /\ Len(upLog) = 3
    /\ Len(fileContent) = MaxFileLen
    /\ upLog[1].consumed = 1 /\ upLog[1].err # NoErr
    /\ upLog[2].consumed = MaxFileLen /\ upLog[2].err # NoErr
    /\ upLog[3].sent /\ upLog[3].request.body = fileContent

C10_WitnessNonEmpty ==
    \E i \in DOMAIN upLog : upLog[i].sent /\ upLog[i].request.contentLength = MaxFileLen

\* C11: once the upload has begun, no request goes to the registration
\* endpoint any more, whatever the upload does: the registration log and the
\* registration's result are final.
C11_NoRegistrationAfterUpload ==
    [][Len(upLog) > 0 => regLog' = regLog /\ regResult' = regResult]_vars

C11_Witness ==
    /\ pc = "exit"
    /\ regResult.err = NoErr
    /\ Len(upLog) = UploadAttempts
    /\ \A i \in DOMAIN upLog : upLog[i].sent
    /\ upResult # NoErr
    /\ Len(regLog) = 1

\* A precondition of the run fails: no file argument, no such file, or no
\* token in upload mode.
PreconditionFails ==
    \/ ~argv.hasFile
    \/ ~fileExists
    \/ ~argv.ValidateFile /\ argv.Token = ""

\* Some step of the run has ended in an error.
RunFailed ==
    \/ PreconditionFails
    \/ validated = "rejected"
    \/ RegReturned /\ regResult.err # NoErr
    \/ UploadReturned /\ upResult # NoErr

\* C12: the process exits with 1 when a step failed and -ignore-failures is
\* not set, and with 0 otherwise; it exits with no other code.
C12_ExitCode ==
    /\ exitCode \in {-1, 0, 1}
    /\ pc = "exit" <=> exitCode # -1
    /\ pc = "exit" =>
          exitCode = IF RunFailed /\ ~argv.IgnoreFailures THEN 1 ELSE 0

C12_Witness ==
    /\ pc = "exit"
    /\ exitCode = 0
    /\ argv.IgnoreFailures
    /\ UploadReturned /\ upResult # NoErr

C12_WitnessOne ==
    pc = "exit" /\ exitCode = 1 /\ RegReturned /\ regResult.err # NoErr

\* C13: with -validate no request is ever sent: the run parses the flags,
\* runs the validator and exits.
C13_ValidateOnlyNoNetwork ==
    argv.ValidateFile =>
        /\ regLog = << >>
        /\ upLog = << >>
        /\ pc \in {"main", "validateOnly", "exit"}

C13_Witness ==
    /\ argv.ValidateFile
    /\ argv.Token = "test-token"
    /\ ~argv.IgnoreFailures
    /\ validated = "accepted"
    /\ pc = "exit"

\* C14: a failed precondition ends the run at once: its message is the only
\* output, the validator has not run and no request was sent.
C14_PreconditionBeforeNetwork ==
    PreconditionFails =>
        /\ regLog = << >>
        /\ upLog = << >>
        /\ validated = "none"
        /\ pc \in {"main", "exit"}
        /\ pc = "exit" =>
              /\ Len(stdout) = 1
              /\ stdout[1] \in {"no file specified", "file not found", "no token specified"}

C14_Witness ==
    /\ pc = "exit"
    /\ argv.hasFile /\ fileExists /\ argv.Token = "" /\ ~argv.ValidateFile
    /\ stdout = <<"no token specified">>

\* C15: when the registration ends on an attempt that the server rejected
\* with a failure envelope, the error CreateTestRun returns carries the
\* envelope's error_message.
C15_ErrorMessageInError ==
    RegReturned =>
        LET last == regLog[Len(regLog)]
        IN  /\ last.status \notin {0, StatusCreated}
            /\ last.body.kind = "json"
            /\ DecodeFailed(last.body).ErrorMsg # ""
            => /\ regResult.err # NoErr
               /\ regResult.err.cause = DecodeFailed(last.body).ErrorMsg

\* C16: every attempt that sends a request sends a POST with the three
\* headers, the token of the command line, and the whole serialized request
\* as its body, the retries as the first.
C16_SameRequestEveryAttempt ==
    \A i \in DOMAIN regLog :
        regLog[i].posted =>
            LET r == regLog[i].request
            IN  /\ r.method = "POST"
                /\ r.contentType = "application/json"
                /\ r.accept = "application/json"
                /\ r.projectToken = argv.Token
                /\ r.body # << >>
                /\ r.body = RequestBodyBytes(config)
                /\ r.body = regLog[1].request.body

C16_Witness ==
    /\ Len(regLog) = Attempts
    /\ regLog[1].status = 500
    /\ regLog[2].status = 400
    /\ regLog[3].status = StatusCreated
    /\ config.Tags # << >>

\* C17: without -tag and metadata flags the body of a registration request
\* has tags as the empty array, not null and not missing, and every metadata
\* field as the empty string.
C17_EmptyTagsSerialized ==
    \A i \in DOMAIN regLog :
        /\ regLog[i].posted
        /\ argv.Tags = << >>
        /\ argv.Branch = "" /\ argv.CommitSHA = "" /\ argv.RunURL = "" /\ argv.BuildID = ""
        => LET doc == regLog[i].request.body[1]
           IN  /\ "tags" \in DOMAIN doc
               /\ ~doc.tags.null
               /\ doc.tags.items = << >>
               /\ \A k \in DOMAIN doc.test_run.metadata : doc.test_run.metadata[k] = ""

\* C18: the body of a registration request has the four metadata fields
\* branch, commit_sha, run_url and build_id, each with the value of its flag.
C18_AllMetadataCarried ==
    \A i \in DOMAIN regLog :
        regLog[i].posted =>
            LET md == regLog[i].request.body[1].test_run.metadata
            IN  /\ DOMAIN md = {"branch", "commit_sha", "run_url", "build_id"}
                /\ md.branch = argv.Branch
                /\ md.commit_sha = argv.CommitSHA
                /\ md.run_url = argv.RunURL
                /\ md.build_id = argv.BuildID

\* C19: a registration that returns no error returns the four fields of the
\* body of its last attempt, the one answered 201, as they are; no earlier
\* attempt was answered 201.
C19_ResponseIsThe201Body ==
    RegReturned /\ regResult.err = NoErr =>
        LET last == regLog[Len(regLog)]
        IN  /\ last.status = StatusCreated
            /\ \A j \in 1..(Len(regLog) - 1) : regLog[j].status # StatusCreated
            /\ regResult.resp.id = last.body.obj.id
            /\ regResult.resp.project = last.body.obj.project
            /\ regResult.resp.test_run_url = last.body.obj.test_run_url
            /\ regResult.resp.presigned_url = last.body.obj.presigned_url

C19_Witness ==
    /\ RegReturned /\ regResult.err = NoErr
    /\ Len(regLog) = Attempts
    /\ regLog[1].status = 400 /\ regLog[1].body = FailureEnvelope
    /\ regLog[2].status = 500
    /\ regResult.resp \in {FullResponse(u) : u \in PresignedURLs}

\* C20: the upload returns no error exactly when one of its PUTs was answered
\* 200, whatever the body of that answer; when every attempt was answered
\* with another status it returns an error that says "failed to upload file".
C20_SuccessIffStatus200 ==
    UploadReturned =>
        /\ upResult = NoErr <=> \E i \in DOMAIN upLog : upLog[i].status = StatusOK
        /\ (\A i \in DOMAIN upLog : upLog[i].status \notin {0, StatusOK})
              => upResult.msg = "failed to upload file"

C20_Witness ==
    /\ UploadReturned /\ upResult = NoErr
    /\ Len(upLog) = 2
    /\ upLog[1].status = 500
    /\ upLog[2].status = StatusOK /\ upLog[2].body = "text"

C20_WitnessAllFail ==
    /\ UploadReturned
    /\ Len(upLog) = UploadAttempts
    /\ \A i \in DOMAIN upLog : upLog[i].status = 500
    /\ upResult.msg = "failed to upload file"

\* C21: an upload attempt whose file does not open ends with "failed to open
\* file" and sends no PUT; when the file opens in no attempt, that is the
\* error of the upload and the upload server has seen no request.
C21_OpenFailureNoPut ==
    /\ \A i \in DOMAIN upLog :
          ~upLog[i].opened =>
              /\ upLog[i].err.msg = "failed to open file"
              /\ ~upLog[i].sent
              /\ upLog[i].status = 0
              /\ upLog[i].consumed = 0
    /\ (UploadReturned /\ \A i \in DOMAIN upLog : ~upLog[i].opened)
          => /\ upResult.msg = "failed to open file"
             /\ \A i \in DOMAIN upLog : ~upLog[i].sent

C21_Witness ==
    /\ UploadReturned
    /\ Len(upLog) = UploadAttempts
    /\ \A i \in DOMAIN upLog : ~upLog[i].opened
    /\ URLDialable(UploadTarget)
    /\ upResult.msg = "failed to open file"

WellFormed(content) == \A i \in DOMAIN content : content[i] # "<malformed"
HasTestSuite(content) == \E i \in DOMAIN content : content[i] = "<testsuite>"

\* C22: the validator accepts a file exactly when it opens, its whole token
\* stream parses and some start element is a testsuite; a parse error
\* anywhere gives "error parsing XML", also after a testsuite element, and a
\* well-formed stream without testsuite gives "doesn't seem to be a valid
\* JUnit XML file".
C22_ValidatorVerdict ==
    LET err == ValidateJUnitXMLFile(fileExists, fileContent)
    IN  /\ err = NoErr <=> fileExists /\ WellFormed(fileContent) /\ HasTestSuite(fileContent)
        /\ ~fileExists => err.msg = "failed to open file"
        /\ fileExists /\ ~WellFormed(fileContent) => err.msg = "error parsing XML"
        /\ fileExists /\ WellFormed(fileContent) /\ ~HasTestSuite(fileContent)
              => err.msg = "doesn't seem to be a valid JUnit XML file"
        /\ pc = "exit" =>
              /\ validated = IF err = NoErr THEN "accepted" ELSE "rejected"
              /\ stdout[2] = IF err = NoErr THEN "is a valid JUnit XML file!" ELSE err.msg

C22_Witness ==
    /\ pc = "exit"
    /\ Len(fileContent) >= 2
    /\ fileContent[1] = "<testsuite>"
    /\ fileContent[2] = "<malformed"
    /\ validated = "rejected"
    /\ stdout[2] = "error parsing XML"

C22_WitnessNested ==
    /\ pc = "exit"
    /\ Len(fileContent) >= 2
    /\ fileContent[1] = "<other>"
    /\ fileContent[Len(fileContent)] = "<testsuite>"
    /\ validated = "accepted"

\* The message of the first precondition that fails, "" when none does.
FirstPreconditionError ==
    IF ~argv.hasFile THEN "no file specified"
    ELSE IF ~fileExists THEN "file not found"
    ELSE IF ~argv.ValidateFile /\ argv.Token = "" THEN "no token specified"
    ELSE ""

\* C23: parseFlags reports the first failing precondition in the order no
\* file argument, file not found, no token; the token is required only
\* without -validate. The run prints that message and nothing else.
C23_PreconditionOrder ==
    /\ parseFlags(argv, fileExists).err.msg = FirstPreconditionError
    /\ argv.ValidateFile /\ argv.hasFile /\ fileExists
          => parseFlags(argv, fileExists).err = NoErr
    /\ pc # "main" =>
          IF FirstPreconditionError # ""
          THEN pc = "exit" /\ stdout = <<FirstPreconditionError>>
          ELSE \A i \in DOMAIN stdout :
                  stdout[i] \notin {"no file specified", "file not found", "no token specified"}

C23_Witness ==
    /\ pc = "exit"
    /\ argv.hasFile /\ ~fileExists /\ argv.Token = "" /\ ~argv.ValidateFile
    /\ stdout = <<"file not found">>

C23_WitnessValidateNoToken ==
    /\ pc = "exit"
    /\ argv.hasFile /\ fileExists /\ argv.Token = "" /\ argv.ValidateFile
    /\ validated = "accepted"

\* The values, each after the first preceded by a comma.
RECURSIVE CommaSeparated(_)
CommaSeparated(values) ==
    IF values = << >> THEN ""
    ELSE IF Len(values) = 1 THEN values[1]
    ELSE CommaSeparated(SubSeq(values, 1, Len(values) - 1)) \o "," \o values[Len(values)]

\* C24: after the first n -tag flags the tag list is the first n values in
\* the order given; String is those values joined by commas, and the
\* registration request carries them in the same order.
C24_TagsAccumulateInOrder ==
    LET n == Len(config.Tags)
        given == SubSeq(argv.Tags, 1, n)
    IN  /\ n <= Len(argv.Tags)
        /\ config.Tags = [i \in 1..n |-> [Value |-> argv.Tags[i]]]
        /\ uploadTagsFlagString(config.Tags) = CommaSeparated(given)
        /\ n > 0 => Marshal(uploadRequest(config)).tags =
                       [null |-> FALSE, items |-> [i \in 1..n |-> [value |-> argv.Tags[i]]]]
        /\ pc = "exit" => n = Len(argv.Tags) /\ stdout = <<CommaSeparated(argv.Tags)>>

C24_Witness ==
    /\ pc = "exit"
    /\ argv.Tags = <<"slow", "feature", "slow">>
    /\ config.Tags = <<[Value |-> "slow"], [Value |-> "feature"], [Value |-> "slow"]>>
    /\ stdout = <<"slow,feature,slow">>

\* The attempts whose file handle is open.
OpenHandles == {i \in DOMAIN upLog : upLog[i].opened /\ ~upLog[i].closed}

\* C25: an upload attempt closes the handle it opened before it ends, so
\* between attempts and after the upload no handle on the file is open, and
\* never more than one; an attempt that sends the file sends it from a
\* handle it opened itself, from the first byte.
C25_OneHandlePerAttempt ==
    /\ Cardinality(OpenHandles) <= 1
    /\ pc \in {"UploadJUnitXmlFile", "uploaded", "exit"} => OpenHandles = {}
    /\ ~fh.open
    /\ \A i \in DOMAIN upLog :
          /\ upLog[i].opened => upLog[i].closed
          /\ upLog[i].sent => upLog[i].opened /\ upLog[i].request.body = fileContent

C25_Witness ==
    /\ pc = "exit"
    /\ Len(upLog) = UploadAttempts
    /\ upLog[1].opened /\ upLog[1].status = 0 /\ upLog[1].sent
    /\ ~upLog[2].opened
    /\ upLog[3].opened /\ upLog[3].status = 500
    /\ upResult # NoErr
    /\ Len(fileContent) > 0

\* C26: when every HTTP call returns, the process exits, and it has then sent
\* at most 3 registration requests and at most 3 upload requests.
C26_Terminates ==
    /\ [](Len(regLog) <= Attempts /\ Len(upLog) <= UploadAttempts)
    /\ <>(pc = "exit")

C26_Witness ==
    /\ pc = "exit"
    /\ Len(regLog) = Attempts
    /\ Len(upLog) = UploadAttempts
    /\ \A i \in DOMAIN upLog : upLog[i].sent

Printed(msg) == \E i \in DOMAIN stdout : stdout[i] = msg

\* C27: with or without -ignore-failures, the step after a failed step is
\* the exit: a failed registration is never followed by an upload, and a
\* run with a failed step prints no message of a later step and no success
\* message.
C27_FailureEndsRun ==
    /\ [](/\ (RegReturned /\ regResult.err # NoErr)
                => /\ upLog = << >>
                   /\ pc \in {"registered", "exit"}
                   /\ ~Printed("Created test run, uploading JUnit XML file...")
          /\ (UploadReturned /\ upResult # NoErr) => pc \in {"uploaded", "exit"}
          /\ PreconditionFails => validated = "none" /\ regLog = << >>
          /\ validated = "rejected" => ~Printed("is a valid JUnit XML file!")
          /\ RunFailed => ~Printed("Test run uploaded successfully!"))
    /\ [][(\/ pc = "registered" /\ regResult.err # NoErr
           \/ pc = "uploaded" /\ upResult # NoErr)
             => /\ pc' = "exit"
                /\ exitCode' = IF argv.IgnoreFailures THEN 0 ELSE 1
                /\ Len(stdout') = Len(stdout) + 1
                /\ <<regLog', upLog', validated'>> = <<regLog, upLog, validated>>]_vars

C27_Witness ==
    /\ pc = "exit"
    /\ argv.IgnoreFailures
    /\ exitCode = 0
    /\ RegReturned /\ regResult.err # NoErr
    /\ upLog = << >>
    /\ stdout[Len(stdout)] = "Error creating test run on TestNod"

C27_WitnessUpload ==
    /\ pc = "exit"
    /\ argv.IgnoreFailures
    /\ exitCode = 0
    /\ UploadReturned /\ upResult # NoErr
    /\ stdout[Len(stdout)] = "There was an error uploading the file to TestNod."

\* A registration attempt was answered 201 with a body that decodes, and a
\* PUT to the presigned URL of that body was answered 200.
RegisteredAndUploaded ==
    \E i \in DOMAIN regLog, j \in DOMAIN upLog :
        /\ regLog[i].status = StatusCreated
        /\ DecodeErr(regLog[i].body) = NoErr
        /\ upLog[j].sent
        /\ upLog[j].request.method = "PUT"
        /\ upLog[j].request.url = regLog[i].body.obj.presigned_url
        /\ upLog[j].status = StatusOK

\* C28: without -validate and without -ignore-failures the process exits with
\* 0 only after a 201 registration with a decodable body and a 200 answer to
\* the PUT to its presigned URL; the success message is printed only then.
C28_ExitZeroMeansUploaded ==
    /\ (pc = "exit" /\ exitCode = 0 /\ ~argv.ValidateFile /\ ~argv.IgnoreFailures)
          => RegisteredAndUploaded /\ Printed("Test run uploaded successfully!")
    /\ Printed("Test run uploaded successfully!")
          => RegisteredAndUploaded /\ pc = "exit" /\ exitCode = 0

C28_Witness ==
    /\ pc = "exit"
    /\ exitCode = 0
    /\ ~argv.ValidateFile /\ ~argv.IgnoreFailures
    /\ Statuses(regLog) = <<500, 201>>
    /\ Statuses(upLog) = <<0, 500, 200>>
    /\ Printed("Test run uploaded successfully!")

\* C29: when the retry loop ends without error, the shared response is not
\* nil and is the 201 response of the last attempt, whatever the attempts
\* before it met; so the branch for another status after the loop is never
\* taken and the process never fails on a nil response.
C29_RespIsThe201Response ==
    /\ (RegLoopDone /\ regLog[Len(regLog)].err = NoErr)
          => /\ ~resp.nil
             /\ resp.status = StatusCreated
             /\ regLog[Len(regLog)].status = StatusCreated
             /\ resp.body = regLog[Len(regLog)].body
    /\ (RegReturned /\ regResult.err.msg = "received non-OK response")
          => regResult.err.cause = StatusLine(regLog[Len(regLog)].status)
    /\ exitCode # 2

C29_Witness ==
    /\ RegReturned
    /\ Statuses(regLog) = <<0, 400, 201>>
    /\ regLog[1].posted
    /\ regResult.err = NoErr
    /\ ~resp.nil

\* Close calls on the body of the answer of attempt i: those of the attempt
\* itself, and for the last attempt those on the shared response.
BodyCloses(i) ==
    IF i = Len(regLog) /\ pc # "CreateTestRun" THEN resp.closes ELSE regLog[i].closes

\* C30: the body of every answer CreateTestRun received is closed once when
\* it returns: inside its attempt for an answer other than 201, on return
\* for the 201 answer; no body is closed twice.
C30_BodiesClosedOnce ==
    /\ resp.closes <= 1
    /\ \A i \in DOMAIN regLog :
          /\ regLog[i].closes <= 1
          /\ regLog[i].status \notin {0, StatusCreated} => regLog[i].closes = 1
          /\ regLog[i].status = StatusCreated => regLog[i].closes = 0
          /\ regLog[i].status = 0 => regLog[i].closes = 0
    /\ RegLoopDone /\ regLog[Len(regLog)].status # 0
          => resp.status = regLog[Len(regLog)].status /\ resp.body = regLog[Len(regLog)].body
    /\ RegReturned =>
          \A i \in DOMAIN regLog : regLog[i].status # 0 => BodyCloses(i) = 1
    /\ exitCode # 2

C30_Witness ==
    /\ RegReturned
    /\ Statuses(regLog) = <<500, 400, 201>>
    /\ regLog[1].closes = 1 /\ regLog[2].closes = 1 /\ regLog[3].closes = 0
    /\ resp.closes = 1
    /\ regResult.err.msg = "failed to decode response body"

C30_WitnessAllRejected ==
    /\ RegReturned
    /\ Statuses(regLog) = <<500, 0, 400>>
    /\ resp.closes = 1
    /\ regResult.err # NoErr

====
